---- MODULE Spec2Model ----
(***************************************************************************)
(* Model of the stream job supervisor of app.py.                           *)
(*                                                                         *)
(* The coordinator is the Streamlit script run main(): every run performs  *)
(* reconnect_to_existing_streams, check_stream_statuses,                   *)
(* check_scheduled_streams and then at most one button handler (start,     *)
(* stop, remove, add).  Each started stream has a runner thread            *)
(* (run_ffmpeg), a child encoder process and a log thread (log_output).    *)
(* Runner threads, log threads and children run concurrently with the      *)
(* coordinator; they meet only in the files of the working directory.      *)
(*                                                                         *)
(* Granularity: the reconciliation calls of one script run are one step,   *)
(* in which children may exit between the reattachment and the liveness    *)
(* sweep; a button handler is one step; the runner thread takes one step   *)
(* per file operation (the creation and the writing of the pid file are    *)
(* two steps, since a reader of the empty file fails to parse it; load and *)
(* save of active_streams.json are two steps).                             *)
(***************************************************************************)
EXTENDS Integers, Sequences, FiniteSets, TLC

\* ---- bounds of the model ----
MaxJobs == 2      \* rows the catalog may hold at once
MaxAdds == 2      \* jobs ever added; every job is started at most once
MaxClock == 1     \* the wall clock takes the values 0..MaxClock (HH:MM)
MaxFatal == 1     \* fatal-connection lines the children print altogether

Rows == 0..(MaxJobs - 1)
Runs == 1..MaxAdds
Times == 0..MaxClock
StartTimes == {1} \* the 'Jam Mulai' an operator enters

\* ---- status texts of the 'Status' column ----
Menunggu == "Menunggu"
SedangLive == "Sedang Live"
Selesai == "Selesai"
Dihentikan == "Dihentikan"
Terputus == "Terputus"

\* ---- contents of stream_<id>.status ----
NoMarker == "(absent)"
ErrConn == "error: YouTube connection failed"
ErrSpawn == "error: [Errno 2] No such file or directory: 'ffmpeg'"

\* ---- contents of stream_<id>.pid: a pid, or ----
NoPid == 0        \* no file; also "no record" in active_streams.json
EmptyPid == -1    \* file created, nothing written yet

VARIABLES
  streams,      \* st.session_state.streams: Seq of [uid, Status, JamMulai]
  disk,         \* streams_data.json
  active,       \* active_streams.json: row id -> pid (NoPid: no record)
  pidfile,      \* stream_<id>.pid
  statusfile,   \* stream_<id>.status
  logfile,      \* stream_<id>.log exists
  runs,         \* run_ffmpeg invocations; the pid of run r's child is r
  nruns,        \* threads started so far
  nextUid,      \* identity given to the next added job
  clock,        \* datetime.now() as HH:MM
  nfatal,       \* fatal-connection lines read by log threads so far
  cpc,          \* position of the coordinator in main()
  quality,      \* argument of the call of get_quality_settings under study
  is_shorts,    \* its second argument
  settings,     \* what that call returned (NoSettings: not yet called)
  previous,     \* arguments and result of the call before it (NoCall: none)
  streams_file, \* streams_data.json is "missing", "unparsable" or "valid"
  active_file,  \* active_streams.json likewise
  ptable,       \* the processes of the operating system, by pid
  stopping,     \* position of a stop_stream in its kill sequence, and its pid
  signalled     \* name of the process the last signal went to (<< >>: none)

vars == <<streams, disk, active, pidfile, statusfile, logfile, runs, nruns,
          nextUid, clock, nfatal, cpc, quality, is_shorts, settings, previous,
          streams_file, active_file, ptable, stopping, signalled>>

\* The supervisor's state, and the state of the calls of get_quality_settings.
supervisor == <<streams, disk, active, pidfile, statusfile, logfile, runs,
                nruns, nextUid, clock, nfatal, cpc>>

profile == <<quality, is_shorts, settings, previous>>

\* Whether the two json files can be read.  In Spec they always can: disk and
\* active are what a load returns.
store == <<streams_file, active_file>>

\* The operating system's process table with names, as psutil shows it.  In
\* Spec a pid is never given to a second process: runs[pid].proc says all.
osview == <<ptable, stopping, signalled>>

files == <<active, pidfile, statusfile, logfile>>

\* ---- helpers ----
IsError(s) == s \in {ErrConn, ErrSpawn}

IsTerminal(s) == s \in {Selesai, Dihentikan, Terputus} \/ IsError(s)

NRows(df) == Len(df)

Loc(df, i) == df[i + 1]

SetStatus(df, i, s) == [df EXCEPT ![i + 1].Status = s]

Drop(df, i) == [k \in 1..(Len(df) - 1) |-> IF k < i + 1 THEN df[k] ELSE df[k + 1]]

IdleRun == [row |-> 0, uid |-> 0, pc |-> "unused", proc |-> "none",
            snap |-> [i \in Rows |-> NoPid], logging |-> FALSE]

\* psutil: a process with this pid exists and is named ffmpeg
is_process_running(rs, pid) == pid \in Runs /\ rs[pid].proc = "alive"

\* Everything the supervisor's functions read and write, as one value.
World == [streams |-> streams, disk |-> disk, active |-> active,
          pidfile |-> pidfile, statusfile |-> statusfile, logfile |-> logfile,
          runs |-> runs, nruns |-> nruns]

Becomes(w) ==
  /\ streams' = w.streams
  /\ disk' = w.disk
  /\ active' = w.active
  /\ pidfile' = w.pidfile
  /\ statusfile' = w.statusfile
  /\ logfile' = w.logfile
  /\ runs' = w.runs
  /\ nruns' = w.nruns

save_persistent_streams(w) == [w EXCEPT !.disk = w.streams]

load_persistent_streams(w) == w.disk

cleanup_stream_files(w, row_id) ==
  [w EXCEPT !.pidfile[row_id] = NoPid, !.statusfile[row_id] = NoMarker]

\* Variant of ReconnectFile that reattaches only a job that still has a
\* record in the active table.
ReconnectFileByRecord(w, row_id) ==
  LET pid == w.pidfile[row_id] IN
  IF pid = NoPid THEN w
  ELSE IF pid = EmptyPid THEN [w EXCEPT !.pidfile[row_id] = NoPid]
  ELSE IF pid \in Runs /\ w.runs[pid].proc = "alive"
       THEN IF row_id < NRows(w.streams) /\ w.active[row_id] # NoPid
            THEN [w EXCEPT !.streams = SetStatus(w.streams, row_id, SedangLive),
                           !.active[row_id] = pid]
            ELSE w
       ELSE [[w EXCEPT !.pidfile[row_id] = NoPid, !.statusfile[row_id] = NoMarker]
               EXCEPT !.active[row_id] = NoPid]

\* One pid file of the listing of reconnect_to_existing_streams.
ReconnectFile(w, row_id) ==
  LET pid == w.pidfile[row_id] IN
  IF pid = NoPid THEN w
  ELSE IF pid = EmptyPid THEN [w EXCEPT !.pidfile[row_id] = NoPid]
  ELSE IF is_process_running(w.runs, pid)
       THEN IF row_id < NRows(w.streams)
            THEN [w EXCEPT !.streams = SetStatus(w.streams, row_id, SedangLive),
                           !.active[row_id] = pid]
            ELSE w
       ELSE [cleanup_stream_files(w, row_id) EXCEPT !.active[row_id] = NoPid]

RECURSIVE ReconnectFrom(_, _)
ReconnectFrom(w, row_id) ==
  IF row_id >= MaxJobs THEN w
  ELSE ReconnectFrom(ReconnectFile(w, row_id), row_id + 1)

reconnect_to_existing_streams(w) == ReconnectFrom(w, 0)

\* One row of the loop of check_stream_statuses.
CheckRow(w, idx) ==
  LET status == w.statusfile[idx]
      row == Loc(w.streams, idx)
      classified ==
        IF status = "completed" THEN Selesai
        ELSE IF IsError(status) THEN status
        ELSE Terputus
  IN
  IF w.active[idx] # NoPid
  THEN IF ~is_process_running(w.runs, w.active[idx]) /\ row.Status = SedangLive
       THEN LET w1 == IF status # NoMarker
                      THEN [save_persistent_streams(
                              [w EXCEPT !.streams = SetStatus(w.streams, idx, classified)])
                            EXCEPT !.statusfile[idx] = NoMarker]
                      ELSE w
            IN cleanup_stream_files([w1 EXCEPT !.active[idx] = NoPid], idx)
       ELSE w
  ELSE IF status # NoMarker /\ row.Status = SedangLive
            /\ (status = "completed" \/ IsError(status))
       THEN [save_persistent_streams(
               [w EXCEPT !.streams = SetStatus(w.streams, idx, classified)])
             EXCEPT !.statusfile[idx] = NoMarker]
       ELSE w

RECURSIVE CheckFrom(_, _)
CheckFrom(w, idx) ==
  IF idx >= NRows(w.streams) THEN w
  ELSE CheckFrom(CheckRow(w, idx), idx + 1)

check_stream_statuses(w) == CheckFrom(w, 0)

\* ---- check_stream_statuses racing with the cleanup of a runner thread ----
\* The sweep opens the marker of row idx (lines 448-449 and 468-469).
MarkerRead(w, idx) ==
  IF w.active[idx] # NoPid
  THEN /\ ~is_process_running(w.runs, w.active[idx])
       /\ Loc(w.streams, idx).Status = SedangLive
       /\ w.statusfile[idx] # NoMarker
  ELSE w.statusfile[idx] # NoMarker

\* The sweep goes on to os.remove the marker it has read (lines 460, 475, 480).
MarkerRemoved(w, idx) ==
  /\ MarkerRead(w, idx)
  /\ \/ w.active[idx] # NoPid
     \/ /\ Loc(w.streams, idx).Status = SedangLive
        /\ (w.statusfile[idx] = "completed" \/ IsError(w.statusfile[idx]))

\* The status update that precedes the os.remove of the marker.
Classify(w, idx) ==
  LET status == w.statusfile[idx] IN
  save_persistent_streams(
    [w EXCEPT !.streams = SetStatus(w.streams, idx,
                IF status = "completed" THEN Selesai
                ELSE IF IsError(status) THEN status
                ELSE Terputus)])

\* The finally block of runner r (lines 331-336).
run_finally(w, r) ==
  [cleanup_stream_files(w, w.runs[r].row)
   EXCEPT !.logfile[w.runs[r].row] = TRUE, !.runs[r].pc = "end"]

\* The sweep while runner `racer` executes its finally block: the marker of
\* the runner's row vanishes after the sweep's os.path.exists and before its
\* open (late = FALSE) or before its os.remove (late = TRUE), and the sweep
\* ends with FileNotFoundError at that row.  [raised, w]
RECURSIVE CheckFromRacing(_, _, _, _)
CheckFromRacing(w, idx, racer, late) ==
  IF idx >= NRows(w.streams) THEN [raised |-> FALSE, w |-> w]
  ELSE IF /\ w.runs[racer].row = idx
          /\ IF late THEN MarkerRemoved(w, idx) ELSE MarkerRead(w, idx)
       THEN [raised |-> TRUE,
             w |-> run_finally(IF late THEN Classify(w, idx) ELSE w, racer)]
       ELSE CheckFromRacing(CheckRow(w, idx), idx + 1, racer, late)

start_stream(w, row_id) ==
  LET w1 == save_persistent_streams(
              [w EXCEPT !.streams = SetStatus(w.streams, row_id, SedangLive)])
      t == w.nruns + 1
  IN [w1 EXCEPT !.statusfile[row_id] = "starting",
                !.nruns = t,
                !.runs[t] = [IdleRun EXCEPT !.row = row_id,
                                            !.uid = Loc(w.streams, row_id).uid,
                                            !.pc = "popen"]]

RECURSIVE ScheduledFrom(_, _, _)
ScheduledFrom(w, idx, current_time) ==
  IF idx >= NRows(w.streams) THEN w
  ELSE LET row == Loc(w.streams, idx) IN
       ScheduledFrom(IF row.Status = Menunggu /\ row.JamMulai = current_time
                     THEN start_stream(w, idx) ELSE w,
                     idx + 1, current_time)

check_scheduled_streams(w, current_time) == ScheduledFrom(w, 0, current_time)

\* stop_stream returns [ok, w]: its return value and the world it leaves.
stop_stream(w, row_id) ==
  LET tracked == w.active[row_id]
      unreadable == tracked = NoPid /\ w.pidfile[row_id] = EmptyPid
      pid == IF tracked # NoPid THEN tracked ELSE w.pidfile[row_id]
      killed == IF pid > 0 /\ is_process_running(w.runs, pid)
                THEN [w EXCEPT !.runs[pid].proc = "killed"] ELSE w
      stopped == save_persistent_streams(
                   [killed EXCEPT !.streams = SetStatus(w.streams, row_id, Dihentikan)])
  IN IF unreadable THEN [ok |-> FALSE, w |-> w]
     ELSE [ok |-> TRUE,
           w |-> cleanup_stream_files([stopped EXCEPT !.active[row_id] = NoPid], row_id)]

\* get_quality_settings: bitrates in kbit/s ("2500k" is 2500), the scale
\* "W:H" as <<W, H>>, the frame rate "30" as 30.  A quality that is no key of
\* the table gets the settings of "720p".
quality_table(shorts) ==
  [p720 |-> [video_bitrate |-> 2500, audio_bitrate |-> 128,
             maxrate |-> 2750, bufsize |-> 5500,
             scale |-> IF ~shorts THEN <<1280, 720>> ELSE <<720, 1280>>,
             fps |-> 30],
   p1080 |-> [video_bitrate |-> 4500, audio_bitrate |-> 192,
              maxrate |-> 4950, bufsize |-> 9900,
              scale |-> IF ~shorts THEN <<1920, 1080>> ELSE <<1080, 1920>>,
              fps |-> 30],
   p480 |-> [video_bitrate |-> 1000, audio_bitrate |-> 96,
             maxrate |-> 1100, bufsize |-> 2200,
             scale |-> IF ~shorts THEN <<854, 480>> ELSE <<480, 854>>,
             fps |-> 30]]

\* Variant: the orientation is ignored.
get_quality_settings_horizontal(q, shorts) ==
  LET table == quality_table(FALSE)
  IN IF q = "1080p" THEN table.p1080
     ELSE IF q = "480p" THEN table.p480
     ELSE table.p720

get_quality_settings(q, shorts) ==
  LET table == quality_table(shorts)
  IN IF q = "720p" THEN table.p720
     ELSE IF q = "1080p" THEN table.p1080
     ELSE IF q = "480p" THEN table.p480
     ELSE table.p720

\* The values of the quality selectbox, and a string that is none of them.
Qualities == {"480p", "720p", "1080p"}

QualityArgs == Qualities \cup {"4k"}

NoSettings == [video_bitrate |-> 0, audio_bitrate |-> 0, maxrate |-> 0,
               bufsize |-> 0, scale |-> <<0, 0>>, fps |-> 0]

NoCall == [quality |-> "", is_shorts |-> FALSE, settings |-> NoSettings]

\* ---- processes and their names ----
Pids == 1..2

NoProc == [exists |-> FALSE, name |-> << >>, denied |-> FALSE]

\* No stop is under way and nothing was signalled.
NoSignals ==
  /\ ptable = [pid \in Pids |-> NoProc]
  /\ stopping = [pc |-> "idle", pid |-> 1]
  /\ signalled = << >>

\* The supervisor before anything was added.
Idle ==
  /\ streams = << >>
  /\ disk = << >>
  /\ active = [i \in Rows |-> NoPid]
  /\ pidfile = [i \in Rows |-> NoPid]
  /\ statusfile = [i \in Rows |-> NoMarker]
  /\ logfile = [i \in Rows |-> FALSE]
  /\ runs = [r \in Runs |-> IdleRun]
  /\ nruns = 0
  /\ nextUid = 1
  /\ clock = 0
  /\ nfatal = 0
  /\ cpc = "pass"

Init ==
  /\ Idle
  /\ quality = "720p"
  /\ is_shorts = FALSE
  /\ settings = NoSettings
  /\ previous = NoCall
  /\ streams_file = "valid"
  /\ active_file = "valid"
  /\ NoSignals

\* ---- the coordinator: one script run of main() ----
Coordinator(w, from, to) ==
  /\ cpc = from
  /\ cpc' = to
  /\ Becomes(w)
  /\ UNCHANGED <<nextUid, clock, nfatal, profile, store, osview>>

\* A new browser session: session_state is empty and the catalog is loaded.
NewSession ==
  /\ streams # disk
  /\ Coordinator([World EXCEPT !.streams = load_persistent_streams(World)],
                 "pass", "pass")

\* Children that exit by themselves while the pass is under way.
Exit(w, dying) ==
  [w EXCEPT !.runs = [r \in Runs |->
     IF r \in dying /\ w.runs[r].proc = "alive"
     THEN [w.runs[r] EXCEPT !.proc = "exited"] ELSE w.runs[r]]]

\* The three reconciliation calls of main(); the children in `dying` exit
\* between the reattachment and the liveness sweep.
reconcile(w, dying, current_time) ==
  check_scheduled_streams(
    check_stream_statuses(Exit(reconnect_to_existing_streams(w), dying)),
    current_time)

Pass ==
  \E dying \in SUBSET {r \in Runs : runs[r].proc = "alive"} :
    Coordinator(reconcile(World, dying, clock), "pass", "ui")

\* A script run whose check_stream_statuses raises: nothing after it runs.
PassRaises ==
  \E dying \in SUBSET {r \in Runs : runs[r].proc = "alive"} :
    \E racer \in {r \in Runs : runs[r].pc = "finally"} : \E late \in BOOLEAN :
      LET res == CheckFromRacing(Exit(reconnect_to_existing_streams(World), dying),
                                 0, racer, late)
      IN res.raised /\ Coordinator(res.w, "pass", "raised")

\* The script runs again after the exception was shown.
Rerun ==
  Coordinator(World, "raised", "pass")

UIStart(i) ==
  /\ i < NRows(streams)
  /\ Loc(streams, i).Status = Menunggu
  /\ Coordinator(start_stream(World, i), "ui", "pass")

UIStop(i) ==
  /\ i < NRows(streams)
  /\ Loc(streams, i).Status = SedangLive
  /\ Coordinator(stop_stream(World, i).w, "ui", "pass")

remove_stream(w, i) ==
  [save_persistent_streams([w EXCEPT !.streams = Drop(w.streams, i)])
   EXCEPT !.logfile[i] = FALSE]

\* Variant of the handler: the remove button is offered for every row.
UIRemoveAnyStatus(i) ==
  /\ i < NRows(streams)
  /\ Coordinator(remove_stream(World, i), "ui", "pass")

UIRemove(i) ==
  /\ i < NRows(streams)
  /\ IsTerminal(Loc(streams, i).Status)
  /\ Coordinator(remove_stream(World, i), "ui", "pass")

add_stream(w, uid, start_time) ==
  save_persistent_streams(
    [w EXCEPT !.streams = Append(w.streams,
                [uid |-> uid, Status |-> Menunggu, JamMulai |-> start_time])])

UIAdd(start_time) ==
  /\ NRows(streams) < MaxJobs
  /\ nextUid <= MaxAdds
  /\ cpc = "ui"
  /\ cpc' = "pass"
  /\ Becomes(add_stream(World, nextUid, start_time))
  /\ nextUid' = nextUid + 1
  /\ UNCHANGED <<clock, nfatal, profile, store, osview>>

UIIdle ==
  Coordinator(World, "ui", "pass")

\* The clock is read by check_scheduled_streams alone, so it is enough to let
\* it advance right before that read.
Tick ==
  /\ cpc = "pass"
  /\ clock < MaxClock
  /\ clock' = clock + 1
  /\ UNCHANGED <<streams, disk, files, runs, nruns, nextUid, nfatal, cpc, profile, store, osview>>

\* ---- the runner thread run_ffmpeg, its child and its log thread ----
Step(r, from, to) ==
  /\ runs[r].pc = from
  /\ runs' = [runs EXCEPT ![r].pc = to]
  /\ UNCHANGED <<streams, disk, nruns, nextUid, clock, nfatal, cpc, profile, store, osview>>

\* The log header is written and the child is spawned.
RunPopen(r) ==
  /\ runs[r].pc = "popen"
  /\ runs' = [runs EXCEPT ![r].pc = "pid_open", ![r].proc = "alive"]
  /\ logfile' = [logfile EXCEPT ![runs[r].row] = TRUE]
  /\ UNCHANGED <<streams, disk, active, pidfile, statusfile, nruns, nextUid,
                 clock, nfatal, cpc, profile, store, osview>>

\* The log header is written and Popen raises (no ffmpeg binary).
RunPopenFails(r) ==
  /\ Step(r, "popen", "except")
  /\ logfile' = [logfile EXCEPT ![runs[r].row] = TRUE]
  /\ UNCHANGED <<active, pidfile, statusfile>>

RunPidOpen(r) ==
  /\ Step(r, "pid_open", "pid_write")
  /\ pidfile' = [pidfile EXCEPT ![runs[r].row] = EmptyPid]
  /\ UNCHANGED <<active, statusfile, logfile>>

RunPidWrite(r) ==
  /\ Step(r, "pid_write", "status")
  /\ pidfile' = [pidfile EXCEPT ![runs[r].row] = r]
  /\ UNCHANGED <<active, statusfile, logfile>>

RunStatus(r) ==
  /\ Step(r, "status", "reg_load")
  /\ statusfile' = [statusfile EXCEPT ![runs[r].row] = "streaming"]
  /\ UNCHANGED <<active, pidfile, logfile>>

Load(r, from, to) ==
  /\ runs[r].pc = from
  /\ runs' = [runs EXCEPT ![r].pc = to, ![r].snap = active]
  /\ UNCHANGED <<streams, disk, files, nruns, nextUid, clock, nfatal, cpc, profile, store, osview>>

Save(r, from, to, pid, logging) ==
  /\ runs[r].pc = from
  /\ active' = [runs[r].snap EXCEPT ![runs[r].row] = pid]
  /\ runs' = [runs EXCEPT ![r].pc = to, ![r].snap = IdleRun.snap,
                           ![r].logging = logging]
  /\ UNCHANGED <<streams, disk, pidfile, statusfile, logfile, nruns, nextUid,
                 clock, nfatal, cpc, profile, store, osview>>

RunRegisterLoad(r) == Load(r, "reg_load", "reg_save")

RunRegisterSave(r) == Save(r, "reg_save", "wait", r, TRUE)

RunWait(r) ==
  /\ runs[r].proc \in {"exited", "killed"}
  /\ Step(r, "wait", "unreg_load")
  /\ statusfile' = [statusfile EXCEPT ![runs[r].row] = "completed"]
  /\ logfile' = [logfile EXCEPT ![runs[r].row] = TRUE]
  /\ UNCHANGED <<active, pidfile>>

RunRemoveLoad(r) == Load(r, "unreg_load", "unreg_save")

RunRemoveSave(r) == Save(r, "unreg_save", "finally", NoPid, runs[r].logging)

RunExcept(r) ==
  /\ Step(r, "except", "exc_load")
  /\ statusfile' = [statusfile EXCEPT ![runs[r].row] = ErrSpawn]
  /\ logfile' = [logfile EXCEPT ![runs[r].row] = TRUE]
  /\ UNCHANGED <<active, pidfile>>

RunExceptLoad(r) == Load(r, "exc_load", "exc_save")

RunExceptSave(r) == Save(r, "exc_save", "finally", NoPid, runs[r].logging)

RunFinally(r) ==
  /\ Step(r, "finally", "end")
  /\ LET w == cleanup_stream_files(World, runs[r].row) IN
       /\ pidfile' = w.pidfile
       /\ statusfile' = w.statusfile
  /\ logfile' = [logfile EXCEPT ![runs[r].row] = TRUE]
  /\ UNCHANGED active

\* The child exits by itself (encode error, connection closed).
ChildExit(r) ==
  /\ runs[r].proc = "alive"
  /\ runs' = [runs EXCEPT ![r].proc = "exited"]
  /\ UNCHANGED <<streams, disk, files, nruns, nextUid, clock, nfatal, cpc, profile, store, osview>>

\* log_output reads a line holding "Connection refused" or "Server returned 4"
\* that the child printed; the pipe keeps it readable after the child's exit.
LogOutput(r) ==
  /\ runs[r].logging
  /\ nfatal < MaxFatal
  /\ nfatal' = nfatal + 1
  /\ statusfile' = [statusfile EXCEPT ![runs[r].row] = ErrConn]
  /\ logfile' = [logfile EXCEPT ![runs[r].row] = TRUE]
  /\ UNCHANGED <<streams, disk, active, pidfile, runs, nruns, nextUid, clock, cpc, profile, store, osview>>

Runner(r) ==
  \/ RunPopen(r) \/ RunPopenFails(r)
  \/ RunPidOpen(r) \/ RunPidWrite(r) \/ RunStatus(r)
  \/ RunRegisterLoad(r) \/ RunRegisterSave(r)
  \/ RunWait(r) \/ RunRemoveLoad(r) \/ RunRemoveSave(r)
  \/ RunExcept(r) \/ RunExceptLoad(r) \/ RunExceptSave(r)
  \/ RunFinally(r)

Next ==
  \/ NewSession \/ Pass \/ PassRaises \/ Rerun
  \/ \E i \in Rows : UIStart(i) \/ UIStop(i) \/ UIRemove(i)
  \/ \E t \in StartTimes : UIAdd(t)
  \/ UIIdle
  \/ Tick
  \/ \E r \in Runs : Runner(r) \/ ChildExit(r) \/ LogOutput(r)

Spec == Init /\ [][Next]_vars

\* ---- get_quality_settings called over and over, for any arguments ----
InitQuality ==
  /\ Idle
  /\ quality \in QualityArgs
  /\ is_shorts \in BOOLEAN
  /\ settings = NoSettings
  /\ previous = NoCall
  /\ streams_file = "valid"
  /\ active_file = "valid"
  /\ NoSignals

\* run_ffmpeg calls get_quality_settings (line 187).
CallQuality ==
  /\ settings = NoSettings
  /\ settings' = get_quality_settings(quality, is_shorts)
  /\ UNCHANGED <<supervisor, quality, is_shorts, previous, store, osview>>

\* The next run_ffmpeg, with arguments of its own.
NextArgs(q, shorts) ==
  /\ settings # NoSettings
  /\ previous' = [quality |-> quality, is_shorts |-> is_shorts, settings |-> settings]
  /\ quality' = q
  /\ is_shorts' = shorts
  /\ settings' = NoSettings
  /\ UNCHANGED <<supervisor, store, osview>>

NextQuality ==
  \/ CallQuality
  \/ \E q \in QualityArgs : \E shorts \in BOOLEAN : NextArgs(q, shorts)

SpecQuality == InitQuality /\ [][NextQuality]_vars

\* ---- the state store when its files are missing or damaged ----
FileStates == {"missing", "unparsable", "valid"}

NoRecords == [i \in Rows |-> NoPid]

\* Variant of load_persistent_streams without the try/except.
load_persistent_streams_unguarded(state, data) ==
  IF state = "missing" THEN [raised |-> FALSE, value |-> << >>]
  ELSE IF state = "valid" THEN [raised |-> FALSE, value |-> data]
  ELSE [raised |-> TRUE, value |-> << >>]

\* load_persistent_streams for a file in the given state whose content, when
\* it parses, is data.  [raised, value]
load_persistent_streams_file(state, data) ==
  IF state # "missing"
  THEN IF state = "valid"
       THEN [raised |-> FALSE, value |-> data]
       ELSE [raised |-> FALSE, value |-> << >>]
  ELSE [raised |-> FALSE, value |-> << >>]

\* load_active_streams likewise.
load_active_streams_file(state, data) ==
  IF state # "missing"
  THEN IF state = "valid"
       THEN [raised |-> FALSE, value |-> data]
       ELSE [raised |-> FALSE, value |-> NoRecords]
  ELSE [raised |-> FALSE, value |-> NoRecords]

\* The catalogs and tables a file left by an earlier run of the program holds.
StoredCatalogs ==
  {<< >>} \cup {<<[uid |-> 1, Status |-> s, JamMulai |-> 1]>> : s \in {Menunggu, SedangLive}}

StoredRecords == {NoRecords, [NoRecords EXCEPT ![0] = 1]}

\* The program is started in a directory with any two files; no encoder runs.
InitStore ==
  /\ streams_file \in FileStates
  /\ active_file \in FileStates
  /\ disk \in IF streams_file = "valid" THEN StoredCatalogs ELSE {<< >>}
  /\ active \in IF active_file = "valid" THEN StoredRecords ELSE {NoRecords}
  /\ streams = << >>
  /\ pidfile = [i \in Rows |-> NoPid]
  /\ statusfile = [i \in Rows |-> NoMarker]
  /\ logfile = [i \in Rows |-> FALSE]
  /\ runs = [r \in Runs |-> IdleRun]
  /\ nruns = 0
  /\ nextUid = 2
  /\ clock = 0
  /\ nfatal = 0
  /\ cpc = "start"
  /\ quality = "720p"
  /\ is_shorts = FALSE
  /\ settings = NoSettings
  /\ previous = NoCall
  /\ NoSignals

\* A script run that ends with the exception a load raised.
StoreRaises ==
  /\ cpc' = "raised"
  /\ UNCHANGED <<streams, disk, files, runs, nruns, nextUid, clock, nfatal,
                 profile, store, osview>>

\* An operation of the coordinator that leaves world w and the files in the
\* states sf and af.
StoreStep(w, from, to, sf, af) ==
  /\ cpc = from
  /\ cpc' = to
  /\ Becomes(w)
  /\ streams_file' = sf
  /\ active_file' = af
  /\ UNCHANGED <<nextUid, clock, nfatal, profile, osview>>

\* The world with active_streams.json read as the given table.
Loaded(table) == [World EXCEPT !.active = table]

\* main(), lines 516-517: the session loads the catalog.
SessionLoad ==
  LET res == load_persistent_streams_file(streams_file, disk) IN
  /\ cpc = "start"
  /\ IF res.raised THEN StoreRaises
     ELSE StoreStep([World EXCEPT !.streams = res.value], "start", "pass",
                    streams_file, active_file)

\* The reconciliation calls; reconnect_to_existing_streams loads the table
\* (line 96) and saves it (line 130).  Whenever the catalog has a row its
\* file is valid, so a save of the catalog leaves the file's state as it is.
StorePass ==
  LET res == load_active_streams_file(active_file, active) IN
  /\ cpc = "pass"
  /\ IF res.raised THEN StoreRaises
     ELSE StoreStep(reconcile(Loaded(res.value), {}, clock), "pass", "ui",
                    streams_file, "valid")

StoreAdd(start_time) ==
  /\ NRows(streams) < MaxJobs
  /\ nextUid <= MaxAdds
  /\ cpc = "ui"
  /\ cpc' = "pass"
  /\ Becomes(add_stream(World, nextUid, start_time))
  /\ nextUid' = nextUid + 1
  /\ streams_file' = "valid"
  /\ UNCHANGED <<clock, nfatal, profile, active_file, osview>>

StoreStart(i) ==
  /\ i < NRows(streams)
  /\ Loc(streams, i).Status = Menunggu
  /\ nruns < MaxAdds
  /\ StoreStep(start_stream(World, i), "ui", "pass", "valid", active_file)

\* stop_stream loads the table (line 365) and saves it (lines 405, 424).
StoreStop(i) ==
  LET res == load_active_streams_file(active_file, active) IN
  /\ i < NRows(streams)
  /\ Loc(streams, i).Status = SedangLive
  /\ cpc = "ui"
  /\ IF res.raised THEN StoreRaises
     ELSE LET out == stop_stream(Loaded(res.value), i) IN
          StoreStep(out.w, "ui", "pass",
                    IF out.ok THEN "valid" ELSE streams_file,
                    IF out.ok THEN "valid" ELSE active_file)

StoreIdle ==
  StoreStep(World, "ui", "pass", streams_file, active_file)

\* Somebody deletes or damages one of the files: the catalog while the
\* program is down, the table at any time.
DamageCatalog(state) ==
  /\ cpc = "start"
  /\ streams_file = "valid"
  /\ streams_file' = state
  /\ disk' = << >>
  /\ UNCHANGED <<streams, files, runs, nruns, nextUid, clock, nfatal, cpc,
                 profile, active_file, osview>>

DamageActive(state) ==
  /\ cpc \in {"start", "pass", "ui"}
  /\ active_file = "valid"
  /\ active_file' = state
  /\ active' = NoRecords
  /\ UNCHANGED <<streams, disk, pidfile, statusfile, logfile, runs, nruns,
                 nextUid, clock, nfatal, cpc, profile, streams_file, osview>>

\* The program is restarted: a new session loads the catalog again.
Restart ==
  /\ StoreStep([World EXCEPT !.streams = << >>], "pass", "start",
               streams_file, active_file)

NextStore ==
  \/ SessionLoad \/ StorePass
  \/ \E t \in StartTimes : StoreAdd(t)
  \/ \E i \in Rows : StoreStart(i) \/ StoreStop(i)
  \/ StoreIdle
  \/ \E state \in {"missing", "unparsable"} : DamageCatalog(state) \/ DamageActive(state)
  \/ Restart
  \/ Tick

SpecStore == InitStore /\ [][NextStore]_vars

\* ---- is_process_running and the kill sequence of stop_stream ----
\* Process names, letter by letter.
ffmpeg == <<"f", "f", "m", "p", "e", "g">>

ProcessNames ==
  {ffmpeg,
   <<"F", "F", "m", "p", "e", "g">>,
   <<"p", "y", "t", "h", "o", "n">>,
   <<"f", "f", "m", "p", "e", "g", "t", "h", "u", "m", "b", "n", "a", "i", "l", "e", "r">>}

\* str.lower, for the capitals that occur.
LowerChar(c) == IF c = "F" THEN "f" ELSE c

Lower(name) == [k \in 1..Len(name) |-> LowerChar(name[k])]

\* sub in name
Contains(sub, name) ==
  \E k \in 0..(Len(name) - Len(sub)) : SubSeq(name, k + 1, k + Len(sub)) = sub

\* is_process_running against the process table: psutil.pid_exists, then
\* 'ffmpeg' in process.name().lower(); AccessDenied is caught.  [raised, value]
is_process_running_os(table, pid) ==
  IF table[pid].exists
  THEN IF table[pid].denied
       THEN [raised |-> FALSE, value |-> FALSE]
       ELSE IF Contains(ffmpeg, Lower(table[pid].name))
            THEN [raised |-> FALSE, value |-> TRUE]
            ELSE [raised |-> FALSE, value |-> FALSE]
  ELSE [raised |-> FALSE, value |-> FALSE]

InitProcess ==
  /\ Idle
  /\ quality = "720p"
  /\ is_shorts = FALSE
  /\ settings = NoSettings
  /\ previous = NoCall
  /\ streams_file = "valid"
  /\ active_file = "valid"
  /\ NoSignals

OsStep(pc, pid) ==
  /\ stopping' = [pc |-> pc, pid |-> pid]
  /\ UNCHANGED <<supervisor, profile, store>>

\* The process with this pid ends; a process is created and gets this pid.
ProcessExits(pid) ==
  /\ ptable[pid].exists
  /\ ptable' = [ptable EXCEPT ![pid] = NoProc]
  /\ UNCHANGED <<supervisor, profile, store, stopping, signalled>>

ProcessCreated(pid, name, denied) ==
  /\ ~ptable[pid].exists
  /\ ptable' = [ptable EXCEPT ![pid] = [exists |-> TRUE, name |-> name, denied |-> denied]]
  /\ UNCHANGED <<supervisor, profile, store, stopping, signalled>>

\* stop_stream for a job whose record or pid file holds pid (line 377).
StopCheck(pid) ==
  /\ stopping.pc = "idle"
  /\ OsStep(IF is_process_running_os(ptable, pid).value THEN "term" ELSE "done", pid)
  /\ UNCHANGED <<ptable, signalled>>

\* os.killpg(os.getpgid(pid), SIGTERM) (line 387); ProcessLookupError when
\* there is no such process (line 391).
StopTerm ==
  /\ stopping.pc = "term"
  /\ IF ptable[stopping.pid].exists
     THEN signalled' = ptable[stopping.pid].name /\ OsStep("recheck", stopping.pid)
     ELSE UNCHANGED signalled /\ OsStep("done", stopping.pid)
  /\ UNCHANGED ptable

\* After the two seconds: is_process_running again (line 389).
StopRecheck ==
  /\ stopping.pc = "recheck"
  /\ OsStep(IF is_process_running_os(ptable, stopping.pid).value THEN "kill" ELSE "done",
            stopping.pid)
  /\ UNCHANGED <<ptable, signalled>>

\* os.killpg(os.getpgid(pid), SIGKILL) (line 390).
StopKill ==
  /\ stopping.pc = "kill"
  /\ IF ptable[stopping.pid].exists
     THEN /\ signalled' = ptable[stopping.pid].name
          /\ ptable' = [ptable EXCEPT ![stopping.pid] = NoProc]
     ELSE UNCHANGED <<signalled, ptable>>
  /\ OsStep("done", stopping.pid)

\* stop_stream returns; the next one may begin.
StopReturns ==
  /\ stopping.pc = "done"
  /\ OsStep("idle", stopping.pid)
  /\ signalled' = << >>
  /\ UNCHANGED ptable

NextProcess ==
  \/ \E pid \in Pids : ProcessExits(pid) \/ StopCheck(pid)
  \/ \E pid \in Pids : \E name \in ProcessNames : \E denied \in BOOLEAN :
       ProcessCreated(pid, name, denied)
  \/ StopTerm \/ StopRecheck \/ StopKill \/ StopReturns

SpecProcess == InitProcess /\ [][NextProcess]_vars

\* ---- vocabulary of the properties ----
HasJob(df, i) == i \in Rows /\ i < NRows(df)

StatusOf(df, i) == Loc(df, i).Status

\* The run was started for the job that is now row i of the catalog.
RunOfRow(df, r, i) ==
  /\ runs[r].pc # "unused"
  /\ HasJob(df, i)
  /\ runs[r].row = i
  /\ Loc(df, i).uid = runs[r].uid

\* A step that is one complete reconciliation pass.
PassStep == cpc = "pass" /\ cpc' = "ui"

Unclassified(marker) == marker \in {NoMarker, "starting", "streaming"}

\* C1: after a complete reconciliation pass no job is Live whose child had
\* exited, and whose runner had finished handling the exit, before the pass
\* began (the claim's own instance of "Live implies a record and a living
\* process after every pass").
C1_ExitedJobNotLeftLive ==
  [][PassStep =>
       \A r \in Runs : \A i \in Rows :
         (runs[r].proc = "exited" /\ runs[r].pc = "end" /\ RunOfRow(streams', r, i))
           => StatusOf(streams', i) # SedangLive]_vars

\* The record of row i is the one the runner of the row's own job registered,
\* and that runner is waiting for its child.
Registered(df, r, i) ==
  RunOfRow(df, r, i) /\ active[i] = r /\ runs[r].pc = "wait"

\* C2: a job whose status is not Live has no record in the active-jobs table
\* (stated for a Stopped job and the record its own runner registered).
C2_StoppedHasNoRecord ==
  \A i \in Rows : \A r \in Runs :
    (HasJob(streams, i) /\ StatusOf(streams, i) = Dihentikan)
      => ~Registered(streams, r, i)

\* C3: for each row index at most one child launched for it is alive.
C3_OneChildPerId ==
  \A i \in Rows :
    Cardinality({r \in Runs : runs[r].row = i /\ runs[r].proc = "alive"}) <= 1

\* C4: a job whose record names a process that is alive before and after the
\* pass is Live after the pass, and the pass changes no child process.
C4_ReattachKeepsLive ==
  [][PassStep =>
       /\ \A i \in Rows :
            (/\ HasJob(streams, i)
             /\ active[i] # NoPid
             /\ RunOfRow(streams, active[i], i)
             /\ is_process_running(runs, active[i])
             /\ is_process_running(runs', active[i]))
              => StatusOf(streams', i) = SedangLive
       /\ \A r \in Runs : runs[r].proc = "none" => runs'[r].proc = "none"]_vars

\* C5: a job whose record names a dead process has, after the pass, no record,
\* no status marker, no pid file, and the status its marker classified:
\* Finished for 'completed', Error for 'error:', Disconnected otherwise.
C5_ReattachCleansDead ==
  [][PassStep =>
       \A i \in Rows :
         (HasJob(streams, i) /\ active[i] # NoPid
            /\ ~is_process_running(runs, active[i]))
           => /\ active'[i] = NoPid
              /\ statusfile'[i] = NoMarker
              /\ pidfile'[i] = NoPid
              /\ StatusOf(streams', i) =
                   (IF statusfile[i] = "completed" THEN Selesai
                    ELSE IF IsError(statusfile[i]) THEN statusfile[i]
                    ELSE Terputus)]_vars

\* C6: once the child of a job has exited by itself, its runner has finished
\* the exit handling and a pass has run after that, the job is Finished.
C6_ExitedJobFinished ==
  [][PassStep =>
       \A r \in Runs : \A i \in Rows :
         (/\ runs[r].proc = "exited" /\ runs[r].pc = "end" /\ nfatal = 0
          /\ RunOfRow(streams, r, i) /\ RunOfRow(streams', r, i)
          /\ StatusOf(streams, i) = SedangLive)
           => StatusOf(streams', i) = Selesai]_vars

\* C7: once Popen has failed, the runner has finished handling the failure and
\* a pass has run after that, the job has no child, no record, and is in Error
\* with the message of the failure.
C7_SpawnFailureIsError ==
  [][PassStep =>
       \A r \in Runs : \A i \in Rows :
         (/\ runs[r].proc = "none" /\ runs[r].pc = "end"
          /\ RunOfRow(streams, r, i) /\ RunOfRow(streams', r, i)
          /\ StatusOf(streams, i) = SedangLive)
           => /\ active'[i] = NoPid
              /\ StatusOf(streams', i) = ErrSpawn]_vars

\* C8: an error marker written for a fatal-connection line is never replaced
\* by 'completed' (the supervisor removes a marker when it acts on it, so a
\* marker that is still there has not been acted on).
C8_ErrorMarkerNotOverwritten ==
  [][\A i \in Rows : statusfile[i] = ErrConn => statusfile'[i] # "completed"]_vars

\* C9: a pass that begins with a Live job whose record names a dead process
\* and whose marker is absent, 'starting' or 'streaming' leaves the job
\* Disconnected.
C9_LostProcessDisconnected ==
  [][PassStep =>
       \A i \in Rows :
         (/\ HasJob(streams, i) /\ StatusOf(streams, i) = SedangLive
          /\ \E r \in Runs : Registered(streams, r, i) /\ runs[r].proc = "exited"
          /\ Unclassified(statusfile[i]))
           => StatusOf(streams', i) = Terputus]_vars

\* C10: for a Live job, stop succeeds, a second stop succeeds and changes
\* nothing, and the job is Stopped with no record, marker or pid file.
C10_StopIdempotent ==
  \A i \in Rows :
    (HasJob(streams, i) /\ StatusOf(streams, i) = SedangLive) =>
      LET once == stop_stream(World, i)
          twice == stop_stream(once.w, i)
      IN /\ once.ok /\ twice.ok
         /\ twice.w = once.w
         /\ StatusOf(once.w.streams, i) = Dihentikan
         /\ once.w.active[i] = NoPid
         /\ once.w.statusfile[i] = NoMarker
         /\ once.w.pidfile[i] = NoPid

\* C11: a job that stop has left Stopped has no alive child process launched
\* for it, whatever the interleaving of the stop with the job's runner thread.
C11_StoppedHasNoChild ==
  \A i \in Rows : \A r \in Runs :
    (HasJob(streams, i) /\ StatusOf(streams, i) = Dihentikan)
      => ~(RunOfRow(streams, r, i) /\ runs[r].proc = "alive")

\* The runs that were started for the job with identity uid.
RunsOf(rs, uid) == {r \in Runs : rs[r].pc # "unused" /\ rs[r].uid = uid}

\* The pass is due to start row i: the job is Waiting and its 'Jam Mulai' is
\* the current minute.
Due(df, i, current_time) ==
  /\ HasJob(df, i)
  /\ StatusOf(df, i) = Menunggu
  /\ Loc(df, i).JamMulai = current_time

\* C12: a pass that finds a Waiting job whose 'Jam Mulai' is the current
\* minute launches it (one new runner thread for that job) and leaves it Live,
\* and no step ever gives a job a second runner thread.
C12_ScheduledStartOnce ==
  [][/\ PassStep =>
          \A i \in Rows : Due(streams, i, clock) =>
            /\ StatusOf(streams', i) = SedangLive
            /\ RunsOf(runs, Loc(streams, i).uid) = {}
            /\ Cardinality(RunsOf(runs', Loc(streams, i).uid)) = 1
     /\ \A u \in 1..MaxAdds : Cardinality(RunsOf(runs', u)) <= 1]_vars

\* C13: a pass run at a minute different from a Waiting job's 'Jam Mulai'
\* starts no runner thread for that job and leaves it Waiting, and every
\* runner thread a pass starts is for a job that was Waiting with its
\* 'Jam Mulai' equal to the current minute.
C13_NoCatchUpStart ==
  [][PassStep =>
       /\ \A i \in Rows :
            (/\ HasJob(streams, i)
             /\ StatusOf(streams, i) = Menunggu
             /\ Loc(streams, i).JamMulai # clock)
              => /\ StatusOf(streams', i) = Menunggu
                 /\ RunsOf(runs', Loc(streams, i).uid) = {}
       /\ \A r \in Runs :
            (runs[r].pc = "unused" /\ runs'[r].pc # "unused")
              => \E i \in Rows : /\ Due(streams, i, clock)
                                 /\ runs'[r].uid = Loc(streams, i).uid
                                 /\ runs'[r].row = i]_vars

\* The row at which the job with identity uid stands in the catalog.
RowsOfJob(df, uid) == {i \in Rows : HasJob(df, i) /\ Loc(df, i).uid = uid}

\* C14: a job whose status is Finished, Stopped, Disconnected or Error keeps
\* that status in every step in which it stays in the catalog.
C14_TerminalAbsorbing ==
  [][\A u \in 1..MaxAdds : \A i \in RowsOfJob(streams, u) :
       \A j \in RowsOfJob(streams', u) :
         IsTerminal(StatusOf(streams, i))
           => StatusOf(streams', j) = StatusOf(streams, i)]_vars

\* C15: a job keeps its row index for as long as it is in the catalog (the
\* index keys its record, pid file, status marker and log).
C15_RowIdStable ==
  [][\A u \in 1..MaxAdds : \A i \in RowsOfJob(streams, u) :
       \A j \in RowsOfJob(streams', u) : i = j]_vars

\* The job with identity uid was added and is no longer in the catalog.
Removed(uid) ==
  uid < nextUid /\ RowsOfJob(streams, uid) = {} /\ RowsOfJob(disk, uid) = {}

\* C16: every step that takes a job out of the catalog finds that job
\* Finished, Stopped, Disconnected or in Error; a Waiting or Live job is
\* never removed.
C16_RemoveOnlyTerminal ==
  [][\A u \in 1..MaxAdds : \A i \in RowsOfJob(streams, u) :
       RowsOfJob(streams', u) = {} => IsTerminal(StatusOf(streams, i))]_vars

\* A job has been removed.
C16_Witness == \E u \in 1..MaxAdds : Removed(u)

\* The step is runner r writing active_streams.json back.
SaveStep(r) ==
  /\ runs[r].pc \in {"reg_save", "unreg_save", "exc_save"}
  /\ runs'[r].pc # runs[r].pc

\* C17: a runner's load-modify-save of the active-jobs table changes the
\* record of its own row only: it neither drops a record another writer
\* registered since the load nor writes back one another writer removed.
C17_NoLostUpdate ==
  [][\A r \in Runs : SaveStep(r) =>
       \A i \in Rows : i # runs[r].row => active'[i] = active[i]]_vars

\* C18: no script run ends with an exception raised by the reconciliation
\* functions, whatever the runner threads do to the marker files meanwhile.
C18_PassNeverRaises == cpc # "raised"

\* The step is runner r writing to its log file: the header (lines 181-184),
\* 'Streaming completed.' (305-306), the error (318-319) or 'Streaming
\* finished or stopped.' (332-333).
LogWriteStep(r) ==
  /\ runs[r].pc \in {"popen", "wait", "except", "finally"}
  /\ runs'[r].pc # runs[r].pc

\* C19: a log file is deleted only by the removal of the job of its row, and
\* once a job has been removed no log file of that job is left: the runner of
\* a removed job (here one whose child a stop has killed) leaves none behind.
C19_LogRetainedUntilRemoval ==
  [][/\ \A i \in Rows : (logfile[i] /\ ~logfile'[i]) =>
          /\ HasJob(streams, i)
          /\ RowsOfJob(streams', Loc(streams, i).uid) = {}
     /\ \A r \in Runs :
          (/\ runs[r].proc = "killed"
           /\ Removed(runs[r].uid)
           /\ LogWriteStep(r))
            => ~logfile'[runs[r].row]]_vars

\* The quality profile table of the specification: video bitrate, audio
\* bitrate, maxrate, bufsize (kbit/s) and scale, for low, medium and high.
ProfileTable(q) ==
  IF q = "480p" THEN <<1000, 96, 1100, 2200, <<854, 480>>>>
  ELSE IF q = "720p" THEN <<2500, 128, 2750, 5500, <<1280, 720>>>>
  ELSE <<4500, 192, 4950, 9900, <<1920, 1080>>>>

\* What the table prescribes for a call: the scale swapped when vertical.
Prescribed(q, shorts) ==
  LET t == ProfileTable(q) IN
  [video_bitrate |-> t[1], audio_bitrate |-> t[2], maxrate |-> t[3],
   bufsize |-> t[4],
   scale |-> IF shorts THEN <<t[5][2], t[5][1]>> ELSE t[5],
   fps |-> 30]

\* C20: for each of the six pairs of a quality and an orientation the call
\* returns the tuple of the table with frame rate 30 and the scale swapped
\* when vertical; two calls with the same arguments return the same tuple and
\* two calls with different pairs return different tuples.
C20_QualityProfile ==
  (settings # NoSettings /\ quality \in Qualities) =>
    /\ settings = Prescribed(quality, is_shorts)
    /\ (previous # NoCall /\ previous.quality \in Qualities) =>
         (settings = previous.settings
            <=> (quality = previous.quality /\ is_shorts = previous.is_shorts))

\* A vertical high-quality call has returned after a horizontal low-quality one.
C20_Witness ==
  /\ settings # NoSettings /\ quality = "1080p" /\ is_shorts
  /\ previous # NoCall /\ previous.quality = "480p" /\ ~previous.is_shorts

\* The step is the log thread of run r writing the error marker: a
\* fatal-connection line is read and r's is the only log thread there is.
LogOutputStep(r) ==
  /\ runs[r].logging
  /\ \A o \in Runs \ {r} : ~runs[o].logging
  /\ nfatal' # nfatal

\* C21: once the runner of a run has written its terminal marker and cleaned
\* up, no thread of that run writes the status marker again, so the run leaves
\* no marker behind.
C21_NoMarkerAfterCleanup ==
  [][\A r \in Runs :
       (runs[r].pc = "end" /\ LogOutputStep(r))
         => statusfile'[runs[r].row] = NoMarker]_vars

\* C22: after a complete pass every record left in the active-jobs table
\* names a process that is alive.
C22_RecordsNameLiveProcesses ==
  [][PassStep =>
       \A i \in Rows : active'[i] # NoPid => is_process_running(runs', active'[i])]_vars

\* C23: whenever an operation of the coordinator has completed (a button
\* handler or a reconciliation pass), streams_data.json holds exactly the
\* catalog of the session.
C23_CatalogDurable == streams = disk

\* A step that is one script run's reconciliation, completed or not.
ReconcileStep == cpc = "pass" /\ cpc' \in {"ui", "raised"}

\* The step starts the job at row i: a runner thread is created for it.
StartStep(r, i) ==
  /\ runs[r].pc = "unused" /\ runs'[r].pc = "popen"
  /\ HasJob(streams, i) /\ runs'[r].row = i

\* Row i is in the window after its start: its runner r has not yet spawned
\* the child, and neither a record nor a pid file exists for the row.
StartWindow(r, i) ==
  /\ RunOfRow(streams, r, i)
  /\ runs[r].pc = "popen"
  /\ StatusOf(streams, i) = SedangLive
  /\ active[i] = NoPid
  /\ pidfile[i] = NoPid

\* C24: a start leaves the job Live in the session and in streams_data.json
\* with its child not yet spawned, and a reconciliation run in the window
\* before the spawn leaves the job Live and starts no second runner for it.
C24_LiveBeforeSpawn ==
  [][\A r \in Runs : \A i \in Rows :
       /\ StartStep(r, i) =>
            /\ StatusOf(streams, i) = Menunggu
            /\ StatusOf(streams', i) = SedangLive
            /\ StatusOf(disk', i) = SedangLive
            /\ runs'[r].proc = "none"
            /\ statusfile'[i] = "starting"
       /\ (StartWindow(r, i) /\ ReconcileStep) =>
            /\ StatusOf(streams', i) = SedangLive
            /\ StatusOf(disk', i) = SedangLive
            /\ RunsOf(runs', runs[r].uid) = {r}
            /\ runs'[r] = runs[r]]_vars

\* C25: a load of streams_data.json or active_streams.json never raises, and
\* when the file is missing or unparsable it returns the empty catalog or the
\* empty table; no script run ends with an exception whatever the files are.
C25_LoadsNeverFail ==
  LET catalog == load_persistent_streams_file(streams_file, disk)
      table == load_active_streams_file(active_file, active)
  IN /\ ~catalog.raised
     /\ ~table.raised
     /\ streams_file # "valid" => catalog.value = << >>
     /\ active_file # "valid" => table.value = NoRecords
     /\ cpc # "raised"
     /\ (cpc # "start" /\ streams_file # "valid") => streams = << >>

\* The session has loaded an unparsable catalog and a pass has run on the
\* empty catalog.
C25_Witness == streams_file = "unparsable" /\ cpc = "ui"

\* The name is the encoder's: 'ffmpeg', in any case of letters.
IsEncoderName(name) == Lower(name) = ffmpeg

\* C26: is_process_running never raises and is true only for a pid whose
\* process exists, can be inspected and has the encoder's name, and a signal
\* of stop_stream goes to a process with the encoder's name only.
C26_OnlyEncoderIsAlive ==
  [][/\ \A pid \in Pids :
          LET res == is_process_running_os(ptable, pid) IN
          /\ ~res.raised
          /\ res.value => /\ ptable[pid].exists
                          /\ ~ptable[pid].denied
                          /\ IsEncoderName(ptable[pid].name)
     /\ signalled' # signalled /\ signalled' # << >> => IsEncoderName(signalled')]_vars

\* The pid file of row i holds the pid of a living process.
Reattachable(i) ==
  /\ HasJob(streams, i)
  /\ pidfile[i] \in Runs
  /\ is_process_running(runs, pidfile[i])

\* C27: in a reconciliation pass the reattachment gives every job whose pid
\* file names a living process the status Live and a record with that pid,
\* whether or not the active table had a record of it, and the job has both
\* after the pass if the process is still alive then; for an unparsable pid
\* file the reattachment removes the file and changes nothing else.
C27_ReattachFromPidFiles ==
  [][PassStep =>
       LET w == reconnect_to_existing_streams(World) IN
       \A i \in Rows :
         /\ Reattachable(i) =>
              /\ StatusOf(w.streams, i) = SedangLive
              /\ w.active[i] = pidfile[i]
              /\ is_process_running(runs', pidfile[i]) =>
                   /\ StatusOf(streams', i) = SedangLive
                   /\ active'[i] = pidfile[i]
         /\ pidfile[i] = EmptyPid =>
              /\ ReconnectFile(World, i) = [World EXCEPT !.pidfile[i] = NoPid]
              /\ w.pidfile[i] = NoPid
              /\ w.active[i] = active[i]
              /\ HasJob(streams, i) => StatusOf(w.streams, i) = StatusOf(streams, i)]_vars

\* A pass has reattached a job that had no record: its runner thread has not
\* yet registered the child, and the record is there.
C27_Witness ==
  /\ cpc = "ui"
  /\ \E i \in Rows :
       /\ Reattachable(i)
       /\ runs[pidfile[i]].pc = "reg_load"
       /\ runs[pidfile[i]].row = i
       /\ active[i] = pidfile[i]
       /\ StatusOf(streams, i) = SedangLive

====
